---- MODULE Spec2Model ----
(***************************************************************************)
(* Model of translations/lang_sync.py, the translation synchronisation     *)
(* tool.                                                                   *)
(*                                                                         *)
(* A text value is a sequence of text tokens (each token stands for the    *)
(* characters it spells).  An entry line of a language file is a record    *)
(*   [k, v, attrs, sp]                                                     *)
(* k the key, v the value as it is stored in the file (escaped text),      *)
(* attrs the attributes written after v="..." in document order, and sp    *)
(* whether a blank precedes the closing "/>".  A file is the sequence of   *)
(* its entry lines followed by the closing container tag (close).  The     *)
(* text between the entries is never touched by the tool and is left out.  *)
(***************************************************************************)
EXTENDS Integers, Sequences, FiniteSets, TLC

VARIABLES
    src,      \* the source-language file (lang_en.xml)
    tgt,      \* the target-language files, one per language code
    dia,      \* the dialect the files of the set are written in
    cmd,      \* the last operation: a command of the tool, or an edit by hand
    pre,      \* the files as they were before the last operation
    written,  \* the files the last command opened for writing
    ops,      \* the files the last command opened, in the order it opened them
    exitCode, \* the exit status of the last command
    out,      \* what the last command reported, per target language
    clean,    \* a sync has completed and no file was edited since
    again,    \* the last sync ran on the files a completed sync had left (or the
              \* last serialization on a line that a serialization had left)
    edits     \* the number of edits by hand so far

vars == <<src, tgt, dia, cmd, pre, written, ops, exitCode, out, clean, again, edits>>

(***************************************************************************)
(* Bounds of the model                                                     *)
(***************************************************************************)
MaxSrcLen == 4   \* entry lines of an initial source file (key orders)
MaxTgtLen == 2   \* entry lines of an initial target file
MaxEdits == 2    \* edits by hand in one behaviour
MaxFmtLen == 2   \* tokens of a value with format specifiers
MaxUnits == 2    \* characters of the value of a line that is parsed and written again

Langs == {"de", "fr"}

\* sorted(languages, key=code)
LangOrder == <<"de", "fr">>
SrcKeys == <<"a", "b", "c">>
OrphanKey == "z"

(***************************************************************************)
(* CONFIG                                                                  *)
(***************************************************************************)
untranslatedPrefix == "[EN] "

(***************************************************************************)
(* Text values and hashes                                                  *)
(***************************************************************************)
Hello == <<"Hello">>
HelloBang == <<"Hello", "!">>
Amp == <<"&", "amp;">>       \* the escaped form of "&", as a file stores it
Pct == <<"%d">>
Bonjour == <<"Bonjour">>

None == <<"None">>           \* Python's None: the entry has no eh attribute
EmptyHash == <<>>            \* eh=""
OldHash == <<"99999999">>    \* a hash of some text no file holds any more

\* hashlib.md5(text).hexdigest()[:8]: equal texts give equal digests, and the
\* digests of the different texts of the model differ.
get_hash(text) == <<"md5">> \o text

RECURSIVE escape_xml(_)
escape_xml(s) ==
    IF s = <<>> THEN <<>>
    ELSE LET c == Head(s)
             e == CASE c = "&" -> <<"&", "amp;">>
                    [] c = "<" -> <<"&", "lt;">>
                    [] c = ">" -> <<"&", "gt;">>
                    [] c = "\"" -> <<"&", "quot;">>
                    [] OTHER -> <<c>>
         IN e \o escape_xml(Tail(s))

startswith(value, prefix) == Len(value) >= 1 /\ value[1] = prefix

\* number of characters a token spells
TokLen(t) ==
    CASE t = "Hello" -> 5
      [] t = "Bonjour" -> 7
      [] t = "[EN] " -> 5
      [] t = "amp;" -> 4
      [] t = "lt;" -> 3
      [] t = "gt;" -> 3
      [] t = "quot;" -> 5
      [] t = "%d" -> 2
      [] t = "%s" -> 2
      [] OTHER -> 1

RECURSIVE StrLen(_)
StrLen(s) == IF s = <<>> THEN 0 ELSE TokLen(Head(s)) + StrLen(Tail(s))

IsSpecifier(t) == t \in {"%d", "%s"}

\* is_format_only_string: nothing is left once the format specifiers, the unit
\* words and the punctuation are stripped.  Of the tokens of the model only
\* the specifiers are stripped.
is_format_only_string(value) ==
    /\ value # <<>>
    /\ \A i \in 1..Len(value) : IsSpecifier(value[i])

CognateMaxLen == 50
CognateShortLen == 3

\* is_cognate_or_international_term: rules 2 to 12 need a blank, a digit, a
\* colon, a dollar sign or an all-capitals word, which no value of the model
\* longer than three characters has or is.
is_cognate_or_international_term(value) ==
    IF value = <<>> THEN TRUE
    ELSE IF StrLen(value) > CognateMaxLen THEN FALSE
    ELSE StrLen(value) <= CognateShortLen

\* the rank of a specifier in Python's order of strings
SpecRank(t) == IF t = "%d" THEN 1 ELSE 2

\* extract_format_specifiers: the specifiers of a value, sorted
extract_format_specifiers(s) ==
    SortSeq(SelectSeq(s, IsSpecifier), LAMBDA x, y : SpecRank(x) < SpecRank(y))

NoIssue == [type |-> "ok"]

\* check_format_specifiers: None, or the first of the count and the mismatch
\* errors, with both lists
check_format_specifiers(source_value, target_value, key) ==
    LET source_specs == extract_format_specifiers(source_value)
        target_specs == extract_format_specifiers(target_value)
    IN IF Len(source_specs) # Len(target_specs)
       THEN [key |-> key, type |-> "count", source |-> source_specs, target |-> target_specs]
       ELSE IF \E i \in 1..Len(source_specs) : source_specs[i] # target_specs[i]
       THEN [key |-> key, type |-> "mismatch", source |-> source_specs, target |-> target_specs]
       ELSE NoIssue

is_empty_value(value) == value = <<>>

\* no value of the model begins or ends with a blank
has_whitespace_issues(value) ==
    value # <<>> /\ (Head(value) = " " \/ value[Len(value)] = " ")

\* validate_entry: the issues of one target value, none for a placeholder
validate_entry(key, source_value, target_value) ==
    IF startswith(target_value, untranslatedPrefix) THEN <<>>
    ELSE (IF is_empty_value(target_value) THEN <<[key |-> key, type |-> "empty"]>> ELSE <<>>)
         \o (IF has_whitespace_issues(target_value)
             THEN <<[key |-> key, type |-> "whitespace"]>> ELSE <<>>)
         \o (IF check_format_specifiers(source_value, target_value, key) # NoIssue
             THEN <<check_format_specifiers(source_value, target_value, key)>> ELSE <<>>)

(***************************************************************************)
(* Entry lines                                                             *)
(***************************************************************************)
Eh(h) == [n |-> "eh", h |-> h]
Tag == [n |-> "tag", h |-> <<>>]      \* tag="format"
Other == [n |-> "x", h |-> <<>>]      \* an attribute the tool does not know

\* re.search(r'eh="([^"]*)"', attrs): the first eh attribute, or None
RECURSIVE HashOf(_)
HashOf(attrs) ==
    IF attrs = <<>> THEN None
    ELSE IF Head(attrs).n = "eh" THEN Head(attrs).h
    ELSE HashOf(Tail(attrs))

NoFile == [st |-> "none", entries |-> <<>>, close |-> FALSE]
Unfound == [st |-> "unfound", entries |-> <<>>, close |-> FALSE]
File(es, c) == [st |-> "file", entries |-> es, close |-> c]

(***************************************************************************)
(* XML parsing                                                             *)
(***************************************************************************)
ordered_keys_of(es) == [i \in 1..Len(es) |-> es[i].k]
KeySet(es) == {es[i].k : i \in 1..Len(es)}
FirstIdx(es, key) ==
    IF key \in KeySet(es)
    THEN CHOOSE i \in 1..Len(es) :
             es[i].k = key /\ \A j \in 1..(i-1) : es[j].k # key
    ELSE 0
LastIdx(es, key) ==
    CHOOSE i \in 1..Len(es) :
        es[i].k = key /\ \A j \in (i+1)..Len(es) : es[j].k # key

\* the elements pattern is used for fmt = 'elements' and the texts pattern
\* otherwise; a pattern finds the entry lines of its own dialect only
Matched(file, fmt) ==
    IF (fmt = "elements") <=> (dia = "elements") THEN file.entries ELSE <<>>

\* variant: a repeated key is recorded once, however often it occurs
RECURSIVE DuplicatesOf_once(_,_)
DuplicatesOf_once(es, seen) ==
    IF es = <<>> THEN <<>>
    ELSE (IF Head(es).k \in seen
             /\ \A i \in 1..Len(Tail(es)) : Tail(es)[i].k # Head(es).k THEN <<Head(es).k>> ELSE <<>>)
         \o DuplicatesOf_once(Tail(es), seen \cup {Head(es).k})

\* one duplicates.append(key) for every occurrence after the first
RECURSIVE DuplicatesOf(_,_)
DuplicatesOf(es, seen) ==
    IF es = <<>> THEN <<>>
    ELSE (IF Head(es).k \in seen THEN <<Head(es).k>> ELSE <<>>)
         \o DuplicatesOf(Tail(es), seen \cup {Head(es).k})

parse_translation_file(file, fmt) ==
    LET es == Matched(file, fmt)
    IN [entries |-> [key \in KeySet(es) |->
                        [value |-> es[LastIdx(es, key)].v,
                         hash |-> HashOf(es[LastIdx(es, key)].attrs)]],
        ordered_keys |-> ordered_keys_of(es),
        duplicates |-> DuplicatesOf(es, {}),
        raw_content |-> file]

\* the keys of a dict in iteration order: by first insertion
RECURSIVE DictKeys(_,_)
DictKeys(keys, seen) ==
    IF keys = <<>> THEN <<>>
    ELSE (IF Head(keys) \in seen THEN <<>> ELSE <<Head(keys)>>)
         \o DictKeys(Tail(keys), seen \cup {Head(keys)})

format_entry(key, value, entry_hash, fmt) ==
    IF fmt = "elements"
    THEN [k |-> key, v |-> escape_xml(value), attrs |-> <<Eh(entry_hash)>>, sp |-> TRUE]
    ELSE [k |-> key, v |-> escape_xml(value), attrs |-> <<>>, sp |-> FALSE]

\* The position is the number of entry lines before it; the closing
\* container tag follows the last entry line.
find_insert_position(content, key, en_ordered_keys, lang_keys, fmt) ==
    LET en_index == CHOOSE i \in 1..Len(en_ordered_keys) :
                        /\ en_ordered_keys[i] = key
                        /\ \A j \in 1..(i-1) : en_ordered_keys[j] # key
        found == {i \in 1..(en_index-1) :
                     /\ en_ordered_keys[i] \in lang_keys
                     /\ FirstIdx(content.entries, en_ordered_keys[i]) # 0}
    IN IF found # {}
       THEN LET i == CHOOSE x \in found : \A y \in found : y <= x
            IN FirstIdx(content.entries, en_ordered_keys[i])
       ELSE IF content.close THEN Len(content.entries)
       ELSE -1

\* variant: the new entry takes the place of the entry after the position
InsertAt_overwrite(es, pos, e) == SubSeq(es, 1, pos) \o <<e>> \o SubSeq(es, pos+2, Len(es))

InsertAt(es, pos, e) == SubSeq(es, 1, pos) \o <<e>> \o SubSeq(es, pos+1, Len(es))

\* variant: the value is escaped again when the line is written
replacer_escaped(e, sh) ==
    [k |-> e.k, v |-> escape_xml(e.v), attrs |-> <<Eh(sh)>>, sp |-> TRUE]

\* replacer: the line is written again with its own key and value, the given
\* hash and, if it had one, the format tag
replacer(e, sh) ==
    LET clean_attrs == SelectSeq(e.attrs, LAMBDA a : a.n # "eh")
        has_tag == \E i \in 1..Len(clean_attrs) : clean_attrs[i].n = "tag"
    IN IF has_tag
       THEN [k |-> e.k, v |-> e.v, attrs |-> <<Eh(sh), Tag>>, sp |-> FALSE]
       ELSE [k |-> e.k, v |-> e.v, attrs |-> <<Eh(sh)>>, sp |-> TRUE]

source_hashes_of(entries) == [key \in DOMAIN entries |-> get_hash(entries[key].value)]

(***************************************************************************)
(* Update English source file with hashes                                  *)
(***************************************************************************)
update_source_hashes(source_file, fmt) ==
    LET parsed == parse_translation_file(source_file, fmt)
        entries == parsed.entries
        wrong == {key \in DOMAIN entries : entries[key].hash # get_hash(entries[key].value)}
        es == source_file.entries
        content == [i \in 1..Len(es) |->
                       IF es[i].k \in wrong
                       THEN replacer(es[i], get_hash(entries[es[i].k].value))
                       ELSE es[i]]
    IN [file |-> [source_file EXCEPT !.entries = content],
        updated |-> Cardinality(wrong)]

(***************************************************************************)
(* Detection                                                               *)
(***************************************************************************)
\* auto_detect_file_prefix: the source file, or else any file of the set
auto_detect_file_prefix ==
    src.st = "file" \/ \E l \in Langs : tgt[l].st # "none"

\* auto_detect_xml_format: the entry marker of a dialect is in the content
auto_detect_xml_format(file) ==
    IF file.entries # <<>> THEN dia ELSE "None"

\* get_enabled_languages: the language files the directory lists
get_enabled_languages == {l \in Langs : tgt[l].st # "none"}

(***************************************************************************)
(* SYNC command, one target language                                       *)
(***************************************************************************)
\* for key in missing: insert the placeholder entry
RECURSIVE AddMissing(_,_,_,_,_)
AddMissing(missing, acc, source, source_hashes, fmt) ==
    IF missing = <<>> THEN acc
    ELSE LET key == Head(missing)
             placeholder_value == <<untranslatedPrefix>> \o source.entries[key].value
             new_entry == format_entry(key, placeholder_value, source_hashes[key], fmt)
             insert_pos == find_insert_position(acc.content, key, source.ordered_keys,
                                                acc.lang_key_set, fmt)
         IN IF insert_pos # -1
            THEN AddMissing(Tail(missing),
                     [content |-> [acc.content EXCEPT
                                     !.entries = InsertAt(acc.content.entries, insert_pos, new_entry)],
                      lang_key_set |-> acc.lang_key_set \cup {key},
                      added |-> acc.added + 1],
                     source, source_hashes, fmt)
            ELSE AddMissing(Tail(missing), acc, source, source_hashes, fmt)

\* variant: a key whose target value is still the placeholder counts as missing
MissingKeys_placeholders(source, lang_entries) ==
    SelectSeq(source.ordered_keys, LAMBDA key :
        \/ key \notin DOMAIN lang_entries
        \/ startswith(lang_entries[key].value, untranslatedPrefix))

\* variant: a key that any language of the run lacks is missing in all
MissingKeys_shared(source, lang_entries) ==
    SelectSeq(source.ordered_keys, LAMBDA key :
        \/ key \notin DOMAIN lang_entries
        \/ \E l \in Langs : tgt[l].st = "file" /\ key \notin KeySet(tgt[l].entries))

MissingKeys(source, lang_entries) ==
    SelectSeq(source.ordered_keys, LAMBDA key : key \notin DOMAIN lang_entries)

\* variant: a placeholder whose hash differs is stale like any other entry
StaleKeys_placeholders(source, source_hashes, lang_entries, fmt) ==
    SelectSeq(source.ordered_keys, LAMBDA key :
        /\ key \in DOMAIN lang_entries
        /\ fmt = "elements"
        /\ lang_entries[key].hash # source_hashes[key])

StaleKeys(source, source_hashes, lang_entries, fmt) ==
    SelectSeq(source.ordered_keys, LAMBDA key :
        /\ key \in DOMAIN lang_entries
        /\ fmt = "elements"
        /\ lang_entries[key].hash # source_hashes[key]
        /\ ~startswith(lang_entries[key].value, untranslatedPrefix))

OrphanedKeys(source_entries, lang_keys) ==
    SelectSeq(lang_keys, LAMBDA key : key \notin DOMAIN source_entries)

InSeq(key, seq) == \E i \in 1..Len(seq) : seq[i] = key

\* variant: the hash of every existing source key is refreshed, stale or not
should_add_hash_always(key, stale, lang_entries) ==
    TRUE

should_add_hash(key, stale, lang_entries) ==
    LET has_no_hash == lang_entries[key].hash \in {None, EmptyHash}
        is_untranslated == startswith(lang_entries[key].value, untranslatedPrefix)
    IN ~InSeq(key, stale) \/ (has_no_hash /\ ~is_untranslated)

\* the validation loop: the issues of every source key the target has
RECURSIVE Validation(_,_,_)
Validation(keys, source_entries, lang_entries) ==
    IF keys = <<>> THEN <<>>
    ELSE (IF Head(keys) \in DOMAIN lang_entries
          THEN validate_entry(Head(keys), source_entries[Head(keys)].value,
                              lang_entries[Head(keys)].value)
          ELSE <<>>)
         \o Validation(Tail(keys), source_entries, lang_entries)

\* the body of the loop over enabled_langs, for a language whose file exists
SyncLang(lang_file, source, fmt) ==
    LET parsed == parse_translation_file(lang_file, fmt)
        lang_entries == parsed.entries
        source_hashes == source_hashes_of(source.entries)
        missing == MissingKeys(source, lang_entries)
        stale == StaleKeys(source, source_hashes, lang_entries, fmt)
        orphaned == OrphanedKeys(source.entries, parsed.ordered_keys)
        validation_issues == Validation(DictKeys(source.ordered_keys, {}),
                                        source.entries, lang_entries)
        ins == AddMissing(missing,
                          [content |-> lang_file,
                           lang_key_set |-> KeySet(Matched(lang_file, fmt)),
                           added |-> 0],
                          source, source_hashes, fmt)
        es == ins.content.entries
        refreshed == [i \in 1..Len(es) |->
                         IF /\ fmt = "elements"
                            /\ es[i].k \in DOMAIN source.entries
                            /\ es[i].k \in DOMAIN lang_entries
                            /\ ~InSeq(es[i].k, missing)
                            /\ should_add_hash(es[i].k, stale, lang_entries)
                         THEN replacer(es[i], source_hashes[es[i].k])
                         ELSE es[i]]
    IN [file |-> [ins.content EXCEPT !.entries = refreshed],
        report |-> [st |-> "done", missing |-> missing, stale |-> stale,
                    untranslated |-> <<>>, duplicates |-> parsed.duplicates,
                    orphaned |-> orphaned, added |-> ins.added,
                    format_errors |-> SelectSeq(validation_issues, LAMBDA issue :
                                         issue.type \in {"count", "mismatch"})]]

NoReport(st) == [st |-> st, missing |-> <<>>, stale |-> <<>>, untranslated |-> <<>>,
                 duplicates |-> <<>>, orphaned |-> <<>>, added |-> 0,
                 format_errors |-> <<>>]

(***************************************************************************)
(* The commands                                                            *)
(***************************************************************************)
Files == [src |-> src, tgt |-> tgt]

\* a file opened for reading, a file opened for writing
Rd(file) == [op |-> "read", file |-> file]
Wr(file) == [op |-> "write", file |-> file]

\* the target files a run parses and writes again, one after the other
LangOps(langs) ==
    [i \in 1..(2 * Len(langs)) |->
        IF i % 2 = 1 THEN Rd(langs[(i + 1) \div 2]) ELSE Wr(langs[i \div 2])]

\* variant: the source file is written when the targets are done
sync_file_ops_late(fmt, hashes_updated) ==
    <<Rd("en")>>
    \o (IF fmt = "elements" THEN <<Rd("en"), Rd("en")>> ELSE <<>>)
    \o <<Rd("en")>>
    \o LangOps(SelectSeq(LangOrder, LAMBDA l : tgt[l].st = "file"))
    \o (IF fmt = "elements" /\ hashes_updated > 0 THEN <<Wr("en")>> ELSE <<>>)

\* the files sync opens: the source for the dialect, update_source_hashes (a
\* read, a parse, and a write if a hash changed), the parse of the source, then
\* every target file that exists
sync_file_ops(fmt, hashes_updated) ==
    <<Rd("en")>>
    \o (IF fmt = "elements"
        THEN <<Rd("en"), Rd("en")>> \o (IF hashes_updated > 0 THEN <<Wr("en")>> ELSE <<>>)
        ELSE <<>>)
    \o <<Rd("en")>>
    \o LangOps(SelectSeq(LangOrder, LAMBDA l : tgt[l].st = "file"))

\* the files a command that writes none opens: the source for the dialect and
\* for its entries, then every target file it reports on
read_ops(name, reports) ==
    IF name = "help" THEN <<>>
    ELSE <<Rd("en"), Rd("en")>>
         \o [i \in 1..Len(SelectSeq(LangOrder, LAMBDA l : reports[l].st = "done")) |->
                Rd(SelectSeq(LangOrder, LAMBDA l : reports[l].st = "done")[i])]

\* sys.exit(1) before any file of a language is looked at
Fatal(name) ==
    /\ cmd' = name
    /\ pre' = Files
    /\ exitCode' = 1
    /\ written' = {}
    /\ ops' = (IF auto_detect_file_prefix /\ src.st = "file" THEN <<Rd("en")>> ELSE <<>>)
    /\ out' = [l \in Langs |-> NoReport("none")]
    /\ again' = FALSE
    /\ UNCHANGED <<src, tgt, dia, clean, edits>>

\* variant: the hashes of the source file are updated whatever the dialect
source_hash_step_always(source_file, fmt) == update_source_hashes(source_file, fmt)

\* Step 1: the hashes of the source file are updated for 'elements' only
source_hash_step(source_file, fmt) ==
    IF fmt = "elements" THEN update_source_hashes(source_file, fmt)
    ELSE [file |-> source_file, updated |-> 0]

sync_translations ==
    IF \/ ~auto_detect_file_prefix
       \/ src.st # "file"
       \/ auto_detect_xml_format(src) = "None"
    THEN Fatal("sync")
    ELSE LET fmt == auto_detect_xml_format(src)
             upd == source_hash_step(src, fmt)
             source == parse_translation_file(upd.file, fmt)
             res == [l \in Langs |->
                        IF tgt[l].st = "file" THEN SyncLang(tgt[l], source, fmt)
                        ELSE [file |-> tgt[l],
                              report |-> NoReport(IF tgt[l].st = "unfound"
                                                  THEN "notfound" ELSE "none")]]
         IN /\ cmd' = "sync"
            /\ pre' = Files
            /\ src' = upd.file
            /\ tgt' = [l \in Langs |-> res[l].file]
            /\ written' = (IF upd.updated > 0 THEN {"en"} ELSE {})
                          \cup {l \in get_enabled_languages : tgt[l].st = "file"}
            /\ ops' = sync_file_ops(fmt, upd.updated)
            /\ out' = [l \in Langs |-> res[l].report]
            /\ exitCode' = 0
            /\ again' = clean
            /\ clean' = TRUE
            /\ UNCHANGED <<dia, edits>>

\* the classification of check_sync for one language whose file exists
CheckLang(lang_file, source, fmt) ==
    LET parsed == parse_translation_file(lang_file, fmt)
        lang_entries == parsed.entries
        source_hashes == source_hashes_of(source.entries)
        keys == DictKeys(source.ordered_keys, {})
        prefixed(key) == startswith(lang_entries[key].value, untranslatedPrefix)
        copied(key) ==
            /\ lang_entries[key].value = source.entries[key].value
            /\ ~is_format_only_string(source.entries[key].value)
            /\ ~is_cognate_or_international_term(source.entries[key].value)
    IN [st |-> "done",
        missing |-> SelectSeq(keys, LAMBDA key : key \notin DOMAIN lang_entries),
        untranslated |-> SelectSeq(keys, LAMBDA key :
            key \in DOMAIN lang_entries /\ (prefixed(key) \/ copied(key))),
        stale |-> SelectSeq(keys, LAMBDA key :
            /\ key \in DOMAIN lang_entries
            /\ ~prefixed(key) /\ ~copied(key)
            /\ fmt = "elements"
            /\ lang_entries[key].hash \notin {None, EmptyHash}
            /\ lang_entries[key].hash # source_hashes[key]),
        duplicates |-> parsed.duplicates,
        orphaned |-> OrphanedKeys(source.entries, parsed.ordered_keys),
        added |-> 0,
        format_errors |-> <<>>]

has_problems(report) ==
    \/ report.st = "notfound"
    \/ /\ report.st = "done"
       /\ \/ Len(report.missing) > 0
          \/ Len(report.duplicates) > 0
          \/ Len(report.orphaned) > 0

ReadOnly(name, code, reports) ==
    /\ cmd' = name
    /\ pre' = Files
    /\ exitCode' = code
    /\ written' = {}
    /\ ops' = read_ops(name, reports)
    /\ out' = reports
    /\ again' = FALSE
    /\ UNCHANGED <<src, tgt, dia, clean, edits>>

check_sync ==
    IF ~auto_detect_file_prefix \/ src.st # "file"
    THEN Fatal("check")
    ELSE LET fmt == auto_detect_xml_format(src)
             source == parse_translation_file(src, fmt)
             reports == [l \in Langs |->
                            IF tgt[l].st = "file" THEN CheckLang(tgt[l], source, fmt)
                            ELSE NoReport(IF tgt[l].st = "unfound"
                                          THEN "notfound" ELSE "none")]
         IN ReadOnly("check",
                     IF \E l \in get_enabled_languages : has_problems(reports[l])
                     THEN 1 ELSE 0,
                     reports)

\* show_status counts the same classes; the keys it counts are kept
StatusLang(lang_file, source, fmt) ==
    LET parsed == parse_translation_file(lang_file, fmt)
        lang_entries == parsed.entries
        source_hashes == source_hashes_of(source.entries)
        keys == DictKeys(source.ordered_keys, {})
        present == SelectSeq(keys, LAMBDA key : key \in DOMAIN lang_entries)
        prefixed(key) == startswith(lang_entries[key].value, untranslatedPrefix)
        copied(key) ==
            /\ lang_entries[key].value = source.entries[key].value
            /\ ~is_format_only_string(source.entries[key].value)
            /\ ~is_cognate_or_international_term(source.entries[key].value)
    IN [st |-> "done",
        missing |-> SelectSeq(keys, LAMBDA key : key \notin DOMAIN lang_entries),
        untranslated |-> SelectSeq(keys, LAMBDA key :
            key \in DOMAIN lang_entries /\ (prefixed(key) \/ copied(key))),
        stale |-> SelectSeq(keys, LAMBDA key :
            /\ key \in DOMAIN lang_entries
            /\ ~prefixed(key) /\ ~copied(key)
            /\ fmt = "elements"
            /\ lang_entries[key].hash \notin {None, EmptyHash}
            /\ lang_entries[key].hash # source_hashes[key]),
        translated |-> SelectSeq(keys, LAMBDA key :
            /\ key \in DOMAIN lang_entries
            /\ ~prefixed(key) /\ ~copied(key)
            /\ ~(/\ fmt = "elements"
                 /\ lang_entries[key].hash \notin {None, EmptyHash}
                 /\ lang_entries[key].hash # source_hashes[key])),
        duplicates |-> parsed.duplicates,
        orphaned |-> OrphanedKeys(source.entries, parsed.ordered_keys),
        added |-> 0,
        format_errors |-> SelectSeq(
            [i \in 1..Len(present) |->
                check_format_specifiers(source.entries[present[i]].value,
                                        lang_entries[present[i]].value, present[i])],
            LAMBDA issue : issue # NoIssue /\ ~prefixed(issue.key))]

\* open(source_file) raises when the file is not there: the traceback ends
\* the command with status 1
show_status ==
    IF ~auto_detect_file_prefix \/ src.st # "file"
    THEN Fatal("status")
    ELSE LET fmt == auto_detect_xml_format(src)
             source == parse_translation_file(src, fmt)
         IN ReadOnly("status", 0,
                     [l \in Langs |->
                         IF tgt[l].st = "file" THEN StatusLang(tgt[l], source, fmt)
                         ELSE NoReport(IF tgt[l].st = "unfound"
                                       THEN "notfound" ELSE "none")])

ReportLang(lang_file, source, fmt) ==
    LET parsed == parse_translation_file(lang_file, fmt)
        lang_entries == parsed.entries
        source_hashes == source_hashes_of(source.entries)
        keys == DictKeys(source.ordered_keys, {})
        prefixed(key) == startswith(lang_entries[key].value, untranslatedPrefix)
        copied(key) ==
            /\ lang_entries[key].value = source.entries[key].value
            /\ ~is_format_only_string(source.entries[key].value)
            /\ ~is_cognate_or_international_term(source.entries[key].value)
    IN [st |-> "done",
        missing |-> SelectSeq(keys, LAMBDA key : key \notin DOMAIN lang_entries),
        untranslated |-> SelectSeq(keys, LAMBDA key :
            key \in DOMAIN lang_entries /\ (prefixed(key) \/ copied(key))),
        stale |-> SelectSeq(keys, LAMBDA key :
            /\ key \in DOMAIN lang_entries
            /\ ~prefixed(key) /\ ~copied(key)
            /\ fmt = "elements"
            /\ lang_entries[key].hash \notin {None, EmptyHash}
            /\ lang_entries[key].hash # source_hashes[key]),
        duplicates |-> parsed.duplicates,
        orphaned |-> OrphanedKeys(source.entries, parsed.ordered_keys),
        added |-> 0,
        format_errors |-> <<>>]

generate_report ==
    IF ~auto_detect_file_prefix \/ src.st # "file"
    THEN Fatal("report")
    ELSE LET fmt == auto_detect_xml_format(src)
             source == parse_translation_file(src, fmt)
         IN ReadOnly("report", 0,
                     [l \in Langs |->
                         IF tgt[l].st = "file" THEN ReportLang(tgt[l], source, fmt)
                         ELSE NoReport(IF tgt[l].st = "unfound"
                                       THEN "notfound" ELSE "none")])

\* variant: a key of the target that the source lacks is a defect too
ValidateDefect_orphans(l, source, fmt) ==
    \/ tgt[l].st # "file"
    \/ \E key \in DOMAIN source.entries :
           key \notin DOMAIN parse_translation_file(tgt[l], fmt).entries
    \/ \E key \in DOMAIN parse_translation_file(tgt[l], fmt).entries :
           key \notin DOMAIN source.entries

\* validate_sync looks at one language: its file is there and has every key
ValidateDefect(l, source, fmt) ==
    \/ tgt[l].st # "file"
    \/ \E key \in DOMAIN source.entries :
           key \notin DOMAIN parse_translation_file(tgt[l], fmt).entries

validate_sync ==
    IF ~auto_detect_file_prefix \/ src.st # "file"
    THEN Fatal("validate")
    ELSE LET fmt == auto_detect_xml_format(src)
             source == parse_translation_file(src, fmt)
             enabled == SelectSeq(LangOrder, LAMBDA l : l \in get_enabled_languages)
             bad == {i \in 1..Len(enabled) : ValidateDefect(enabled[i], source, fmt)}
             stop == IF bad = {} THEN Len(enabled)
                     ELSE CHOOSE i \in bad : \A j \in bad : i <= j
         IN ReadOnly("validate",
                     IF bad # {} THEN 1 ELSE 0,
                     [l \in Langs |->
                         IF \E i \in 1..stop : enabled[i] = l
                         THEN NoReport(IF tgt[l].st = "file" THEN "done" ELSE "notfound")
                         ELSE NoReport(IF l \in get_enabled_languages
                                       THEN "skipped" ELSE "none")])

show_help == ReadOnly("help", 0, [l \in Langs |-> NoReport("none")])

(***************************************************************************)
(* Edits by hand, between two runs of the tool                             *)
(***************************************************************************)
SrcEditVals == {Hello, HelloBang}

Edited ==
    /\ cmd' = "edit"
    /\ pre' = Files
    /\ exitCode' = 0
    /\ written' = {}
    /\ ops' = <<>>
    /\ out' = [l \in Langs |-> NoReport("none")]
    /\ clean' = FALSE
    /\ again' = FALSE
    /\ edits < MaxEdits
    /\ edits' = edits + 1
    /\ UNCHANGED dia

\* the author changes the text of one source entry
EditSource ==
    /\ src.st = "file"
    /\ \E i \in 1..Len(src.entries), v \in SrcEditVals :
           /\ src.entries[i].v # v
           /\ src' = [src EXCEPT !.entries[i].v = v]
    /\ UNCHANGED tgt
    /\ Edited

\* a translator translates one entry again and copies the hash of the source
\* entry it was translated from
EditTarget ==
    /\ src.st = "file"
    /\ \E l \in Langs : \E i \in 1..Len(tgt[l].entries) :
           LET e == tgt[l].entries[i]
               source == parse_translation_file(src, dia)
               new == [e EXCEPT !.v = Bonjour,
                                !.attrs = IF dia = "elements" /\ e.k \in DOMAIN source.entries
                                          THEN <<Eh(get_hash(source.entries[e.k].value))>>
                                          ELSE e.attrs]
           IN /\ tgt[l].st = "file"
              /\ new # e
              /\ tgt' = [tgt EXCEPT ![l].entries[i] = new]
    /\ UNCHANGED src
    /\ Edited

(***************************************************************************)
(* The file sets a run of the tool can find                                *)
(***************************************************************************)
Line(key, value, attrs, sp) == [k |-> key, v |-> value, attrs |-> attrs, sp |-> sp]

\* entry lines of a source file, as the tool writes them and as hand-written
SrcLines(d) ==
    IF d = "elements"
    THEN {Line("a", Hello, <<Eh(get_hash(Hello))>>, FALSE),
          Line("a", Hello, <<Tag, Eh(OldHash), Other>>, FALSE),
          Line("a", Amp, <<>>, FALSE),
          Line("b", Amp, <<Eh(EmptyHash)>>, TRUE)}
    ELSE {Line("a", Hello, <<>>, FALSE),
          Line("a", Amp, <<>>, TRUE),
          Line("b", Amp, <<>>, FALSE)}

\* entry lines of a target file
TgtLines(d) ==
    IF d = "elements"
    THEN {Line("a", Bonjour, <<Eh(get_hash(Hello))>>, FALSE),
          Line("a", Bonjour, <<Eh(OldHash)>>, TRUE),
          Line("a", <<untranslatedPrefix>> \o Hello, <<Eh(OldHash), Tag>>, FALSE),
          Line("a", Hello, <<Tag, Eh(get_hash(Hello)), Other>>, FALSE),
          Line("a", Hello, <<Eh(OldHash)>>, TRUE),
          Line("b", Bonjour, <<>>, FALSE),
          Line(OrphanKey, Bonjour, <<Eh(OldHash)>>, TRUE)}
    ELSE {Line("a", Bonjour, <<>>, FALSE),
          Line("a", <<untranslatedPrefix>> \o Hello, <<>>, FALSE),
          Line("a", Hello, <<>>, TRUE),
          Line("b", Bonjour, <<>>, FALSE),
          Line(OrphanKey, Bonjour, <<>>, FALSE)}

SrcShapes == {<<>>, <<"a">>, <<"a", "b">>, <<"a", "a">>}

LinesOf(shape, lines) ==
    {es \in [1..Len(shape) -> lines] : \A i \in 1..Len(shape) : es[i].k = shape[i]}

SeqsUpTo(S, n) == UNION {[1..m -> S] : m \in 0..n}

\* Varied entry lines: a short source, a target of up to MaxTgtLen lines.
\* The second language is not there, is listed under a name that differs in
\* case from the one the tool opens, or is a file without entries.
InitLines ==
    /\ dia \in {"elements", "texts"}
    /\ src \in {File(es, TRUE) : es \in UNION {LinesOf(sh, SrcLines(dia)) : sh \in SrcShapes}}
               \cup {NoFile}
    /\ \/ /\ tgt \in {[de |-> f, fr |-> NoFile] :
                        f \in {File(es, TRUE) : es \in SeqsUpTo(TgtLines(dia), MaxTgtLen)}}
       \/ /\ tgt \in {[de |-> f, fr |-> g] :
                        f \in {File(es, c) : es \in SeqsUpTo(TgtLines(dia), 1), c \in BOOLEAN}
                              \cup {NoFile},
                        g \in {NoFile, Unfound, File(<<>>, TRUE)}}

\* Varied key orders: one entry line per key
OrderLine(key, d) ==
    IF d = "elements" THEN Line(key, Hello, <<Eh(get_hash(Hello))>>, TRUE)
    ELSE Line(key, Hello, <<>>, FALSE)

\* the key orders of a source file, the keys named in the order they first
\* occur
SrcKeyOrders ==
    {ks \in SeqsUpTo({SrcKeys[i] : i \in 1..Len(SrcKeys)}, MaxSrcLen) :
        \A i \in 1..Len(ks) :
            \E n \in 1..Len(SrcKeys) :
                /\ ks[i] = SrcKeys[n]
                /\ \A m \in 1..(n-1) : \E j \in 1..(i-1) : ks[j] = SrcKeys[m]}

TgtKeyOrders ==
    {<<>>, <<"a">>, <<"b">>, <<"c">>, <<"a", "b">>, <<"b", "a">>, <<"c", "a">>,
     <<"b", "c">>, <<"a", "a">>, <<"a", OrphanKey>>, <<OrphanKey, "b">>, <<"a", OrphanKey, "a">>}

InitOrder ==
    /\ dia \in {"elements", "texts"}
    /\ src \in {File([i \in 1..Len(ks) |-> OrderLine(ks[i], dia)], TRUE) : ks \in SrcKeyOrders}
    /\ tgt \in {[de |-> File([i \in 1..Len(ks) |-> OrderLine(ks[i], dia)], c), fr |-> NoFile] :
                   ks \in TgtKeyOrders, c \in BOOLEAN}

Init ==
    /\ InitLines \/ InitOrder
    /\ cmd = "none"
    /\ pre = [src |-> src, tgt |-> tgt]
    /\ written = {}
    /\ ops = <<>>
    /\ exitCode = 0
    /\ out = [l \in Langs |-> NoReport("none")]
    /\ clean = FALSE
    /\ again = FALSE
    /\ edits = 0

Next ==
    \/ sync_translations
    \/ check_sync
    \/ show_status
    \/ generate_report
    \/ validate_sync
    \/ show_help

\* the tool is run on whatever the files are
Spec == Init /\ [][Next]_vars

\* Short files, which are also edited by hand between the runs
InitEdit ==
    /\ dia \in {"elements", "texts"}
    /\ src \in {File(es, TRUE) :
                   es \in UNION {LinesOf(sh, SrcLines(dia)) : sh \in {<<"a">>, <<"a", "b">>}}}
    /\ tgt \in {[de |-> File(es, TRUE), fr |-> NoFile] : es \in SeqsUpTo(TgtLines(dia), 1)}
    /\ cmd = "none"
    /\ pre = [src |-> src, tgt |-> tgt]
    /\ written = {}
    /\ ops = <<>>
    /\ exitCode = 0
    /\ out = [l \in Langs |-> NoReport("none")]
    /\ clean = FALSE
    /\ again = FALSE
    /\ edits = 0

NextEdit ==
    \/ sync_translations
    \/ check_sync
    \/ show_status
    \/ generate_report
    \/ validate_sync
    \/ show_help
    \/ EditSource
    \/ EditTarget

SpecEdit == InitEdit /\ [][NextEdit]_vars

\* Values with format specifiers: one key, in the source and in one target
FormatVals == SeqsUpTo({"%d", "%s", "Hello"}, MaxFmtLen)

FormatLine(value, d) ==
    IF d = "elements" THEN Line("a", value, <<Eh(get_hash(Hello))>>, TRUE)
    ELSE Line("a", value, <<>>, FALSE)

InitFormat ==
    /\ dia \in {"elements", "texts"}
    /\ src \in {File(<<FormatLine(v, dia)>>, TRUE) : v \in FormatVals}
    /\ tgt \in {[de |-> File(<<FormatLine(v, dia)>>, TRUE), fr |-> NoFile] :
                   v \in FormatVals \cup {<<untranslatedPrefix>> \o w : w \in FormatVals}}
    /\ cmd = "none"
    /\ pre = [src |-> src, tgt |-> tgt]
    /\ written = {}
    /\ ops = <<>>
    /\ exitCode = 0
    /\ out = [l \in Langs |-> NoReport("none")]
    /\ clean = FALSE
    /\ again = FALSE
    /\ edits = 0

SpecFormat == InitFormat /\ [][Next]_vars

\* A sync run that is stopped while it writes the file of a language: the
\* source step is done, the languages before it are done, and of the new text
\* of the file only the lines of a beginning are there, without the closing
\* tag.  The languages after it are not looked at.
sync_interrupted ==
    /\ auto_detect_file_prefix
    /\ src.st = "file"
    /\ auto_detect_xml_format(src) # "None"
    /\ LET fmt == auto_detect_xml_format(src)
           upd == source_hash_step(src, fmt)
           source == parse_translation_file(upd.file, fmt)
           all == sync_file_ops(fmt, upd.updated)
       IN \E n \in 1..Len(LangOrder) :
              LET lang == LangOrder[n]
                  before == {LangOrder[i] : i \in 1..(n - 1)}
                  new == SyncLang(tgt[lang], source, fmt).file
                  at == CHOOSE i \in 1..Len(all) : all[i] = Wr(lang)
              IN /\ tgt[lang].st = "file"
                 /\ \E m \in 0..Len(new.entries) :
                        tgt' = [l \in Langs |->
                                   IF l = lang THEN File(SubSeq(new.entries, 1, m), FALSE)
                                   ELSE IF l \in before /\ tgt[l].st = "file"
                                   THEN SyncLang(tgt[l], source, fmt).file
                                   ELSE tgt[l]]
                 /\ src' = upd.file
                 /\ written' = (IF upd.updated > 0 THEN {"en"} ELSE {})
                               \cup {l \in before \cup {lang} : tgt[l].st = "file"}
                 /\ ops' = SubSeq(all, 1, at)
                 /\ out' = [l \in Langs |->
                               IF l \in before /\ tgt[l].st = "file"
                               THEN SyncLang(tgt[l], source, fmt).report
                               ELSE NoReport("none")]
    /\ cmd' = "interrupted"
    /\ pre' = Files
    /\ exitCode' = 1
    /\ clean' = FALSE
    /\ again' = FALSE
    /\ UNCHANGED <<dia, edits>>

InitCrash ==
    /\ dia \in {"elements", "texts"}
    /\ src \in {File(es, TRUE) :
                   es \in UNION {LinesOf(sh, SrcLines(dia)) : sh \in {<<"a">>, <<"a", "b">>}}}
    /\ tgt \in {[de |-> File(es, TRUE), fr |-> g] :
                   es \in SeqsUpTo(TgtLines(dia), 1), g \in {NoFile, File(<<>>, TRUE)}}
    /\ cmd = "none"
    /\ pre = [src |-> src, tgt |-> tgt]
    /\ written = {}
    /\ ops = <<>>
    /\ exitCode = 0
    /\ out = [l \in Langs |-> NoReport("none")]
    /\ clean = FALSE
    /\ again = FALSE
    /\ edits = 0

NextCrash ==
    \/ sync_translations
    \/ check_sync
    \/ show_status
    \/ generate_report
    \/ validate_sync
    \/ show_help
    \/ sync_interrupted

SpecCrash == InitCrash /\ [][NextCrash]_vars

\* One entry line, parsed and serialized again.  The characters of a value are
\* escaped as a file stores them.
EscapedUnits == {<<"Hello">>, Amp, <<"&", "lt;">>, <<"%d">>}

RECURSIVE Flatten(_)
Flatten(us) == IF us = <<>> THEN <<>> ELSE Head(us) \o Flatten(Tail(us))

EscapedVals == {Flatten(us) : us \in SeqsUpTo(EscapedUnits, MaxUnits)}

RoundAttrs ==
    {<<>>, <<Eh(get_hash(Hello))>>, <<Eh(EmptyHash)>>, <<Eh(OldHash), Tag>>,
     <<Tag, Eh(OldHash)>>, <<Tag>>}

RoundLines(d) ==
    IF d = "elements"
    THEN {Line("a", v, at, sp) : v \in EscapedVals, at \in RoundAttrs, sp \in BOOLEAN}
    ELSE {Line("a", v, <<>>, sp) : v \in EscapedVals, sp \in BOOLEAN}

\* the line of the file is parsed, and the parsed key, value and hash are
\* serialized with format_entry; the result is parsed and serialized once more
round_trip ==
    /\ tgt["de"].st = "file"
    /\ Len(tgt["de"].entries) = 1
    /\ cmd = "roundtrip" => ~again
    /\ LET parsed == parse_translation_file(tgt["de"], dia)
           key == parsed.ordered_keys[1]
           line == format_entry(key, parsed.entries[key].value,
                                parsed.entries[key].hash, dia)
       IN tgt' = [tgt EXCEPT !["de"].entries = <<line>>]
    /\ cmd' = "roundtrip"
    /\ pre' = Files
    /\ again' = (cmd = "roundtrip")
    /\ exitCode' = 0
    /\ written' = {}
    /\ ops' = <<>>
    /\ out' = [l \in Langs |-> NoReport("none")]
    /\ UNCHANGED <<src, dia, clean, edits>>

InitRound ==
    /\ dia \in {"elements", "texts"}
    /\ src = NoFile
    /\ tgt \in {[de |-> File(<<line>>, TRUE), fr |-> NoFile] : line \in RoundLines(dia)}
    /\ cmd = "none"
    /\ pre = [src |-> src, tgt |-> tgt]
    /\ written = {}
    /\ ops = <<>>
    /\ exitCode = 0
    /\ out = [l \in Langs |-> NoReport("none")]
    /\ clean = FALSE
    /\ again = FALSE
    /\ edits = 0

SpecRound == InitRound /\ [][round_trip]_vars

(***************************************************************************)
(* Properties                                                              *)
(***************************************************************************)
Commands == {"sync", "check", "status", "report", "validate", "help"}

\* the run found the source file and the dialect of its entries
Detected == pre.src.st = "file" /\ pre.src.entries # <<>>

\* a sync run went through all its steps
Synced == cmd = "sync" /\ exitCode = 0

\* the languages whose files the run read
Read == {l \in Langs : pre.tgt[l].st = "file"}

Has(file, key) == key \in KeySet(file.entries)

\* the entry the tool looks a key up as: its last occurrence
Look(file, key) == file.entries[LastIdx(file.entries, key)]

HasPrefix(e) == startswith(e.v, untranslatedPrefix)

\* the fingerprint of the source value of a key
Fp(key) == get_hash(Look(src, key).v)

\* Stale: a stored hash that is not the fingerprint, on a value that is no
\* placeholder
StaleIn(file, key) ==
    /\ Has(file, key)
    /\ HashOf(Look(file, key).attrs) \notin {None, EmptyHash}
    /\ HashOf(Look(file, key).attrs) # Fp(key)
    /\ ~HasPrefix(Look(file, key))

KV(es) == [i \in 1..Len(es) |-> <<es[i].k, es[i].v>>]

\* a is b with some elements left out
RECURSIVE IsSubSeq(_,_)
IsSubSeq(a, b) ==
    IF a = <<>> THEN TRUE
    ELSE IF b = <<>> THEN FALSE
    ELSE IF Head(a) = Head(b) THEN IsSubSeq(Tail(a), Tail(b))
    ELSE IsSubSeq(a, Tail(b))

\* C1: a sync run on the files a completed sync run left, with no edit in
\* between, leaves every file as it is: it inserts no entry and changes no hash.
C1_Idempotence ==
    (Synced /\ again) =>
        /\ src = pre.src
        /\ tgt = pre.tgt
        /\ \A l \in Langs : out[l].added = 0

\* a second sync run on a target into which a run of the tool has inserted a
\* placeholder entry and whose hashes it has refreshed
C1_Witness ==
    /\ Synced /\ again
    /\ \E i \in 1..Len(tgt["de"].entries) :
           tgt["de"].entries[i].k \in {"b", "c"} /\ HasPrefix(tgt["de"].entries[i])
    /\ \E i \in 1..Len(tgt["de"].entries) :
           tgt["de"].entries[i].k = "a" /\ ~HasPrefix(tgt["de"].entries[i])

\* the rule by which sync flags a key Stale
FlaggedStale(file, key) ==
    /\ Has(file, key)
    /\ HashOf(Look(file, key).attrs) # Fp(key)
    /\ ~HasPrefix(Look(file, key))

\* C2 as it is worded: after sync under the elements dialect the stored hash
\* of every source key of a target is the fingerprint of the source value,
\* unless the value carried the placeholder prefix and the key was flagged
\* Stale before the run.
C2_AsWorded ==
    (Synced /\ dia = "elements") =>
        \A l \in Read : \A key \in KeySet(src.entries) :
            Has(tgt[l], key) =>
                \/ HashOf(Look(tgt[l], key).attrs) = Fp(key)
                \/ /\ Has(pre.tgt[l], key)
                   /\ HasPrefix(Look(pre.tgt[l], key))
                   /\ FlaggedStale(pre.tgt[l], key)

\* C2: after sync under the elements dialect the stored hash of every source
\* key of a target is the fingerprint of the source value, unless before the
\* run the key had a value without the placeholder prefix and a non-empty
\* stored hash other than the fingerprint: then the stored hash is the one
\* from before the run.
C2_HashContract ==
    (Synced /\ dia = "elements") =>
        \A l \in Read : \A key \in KeySet(src.entries) :
            Has(tgt[l], key) =>
                IF StaleIn(pre.tgt[l], key)
                THEN HashOf(Look(tgt[l], key).attrs) = HashOf(Look(pre.tgt[l], key).attrs)
                ELSE HashOf(Look(tgt[l], key).attrs) = Fp(key)

\* a run that refreshed the hash of a placeholder and kept the hash of a
\* stale translation apart
C2_Witness ==
    /\ Synced /\ dia = "elements"
    /\ \E l \in Read : \E key \in KeySet(src.entries) :
           /\ Has(pre.tgt[l], key)
           /\ HashOf(Look(pre.tgt[l], key).attrs) # Fp(key)
           /\ HashOf(Look(tgt[l], key).attrs) = Fp(key)
    /\ \E l \in Read : \E key \in KeySet(src.entries) :
           /\ StaleIn(pre.tgt[l], key)
           /\ HashOf(Look(tgt[l], key).attrs) = OldHash

\* the target value is the source value, copied: check counts such a key
\* Untranslated
Copied(file, key) ==
    /\ Look(file, key).v = Look(src, key).v
    /\ ~is_format_only_string(Look(src, key).v)
    /\ ~is_cognate_or_international_term(Look(src, key).v)

\* a check run or a sync run that classified the keys of language l
Classified(l) == cmd \in {"check", "sync"} /\ dia = "elements" /\ out[l].st = "done"

\* what a run of the tool leaves of a stale key: the stale entry itself, and
\* under sync a source hash that is the fingerprint
StaleKept(l, key) ==
    /\ StaleIn(tgt[l], key)
    /\ Look(tgt[l], key).v = Look(pre.tgt[l], key).v
    /\ HashOf(Look(tgt[l], key).attrs) = HashOf(Look(pre.tgt[l], key).attrs)
    /\ Synced => HashOf(Look(src, key).attrs) = Fp(key)

Inserted(l) == {key \in KeySet(src.entries) : ~Has(pre.tgt[l], key) /\ Has(tgt[l], key)}

\* C4: every entry sync has inserted for a source key that the target lacked
\* has as value the placeholder prefix followed by the source value exactly as
\* the source file stores it and, under the elements dialect, as hash the
\* fingerprint of the source value.
C4_Insertion ==
    Synced =>
        \A l \in Read : \A key \in Inserted(l) :
            \A i \in 1..Len(tgt[l].entries) :
                tgt[l].entries[i].k = key =>
                    /\ tgt[l].entries[i].v = <<untranslatedPrefix>> \o Look(src, key).v
                    /\ dia = "elements" => HashOf(tgt[l].entries[i].attrs) = Fp(key)

\* C5: after a completed sync run every source key is present in every
\* target file the run read.
C5_Repairs ==
    Synced =>
        \A l \in Read : \A key \in KeySet(src.entries) : Has(tgt[l], key)

\* C6: a sync run keeps every entry occurrence of a target file, orphaned and
\* repeated keys included, with its key and its value and in the same relative
\* order; what it adds is the entries it reports as added, and orphaned keys
\* are reported only.
C6_NothingLost ==
    cmd = "sync" =>
        \A l \in Read :
            /\ IsSubSeq(KV(pre.tgt[l].entries), KV(tgt[l].entries))
            /\ Len(tgt[l].entries) = Len(pre.tgt[l].entries) + out[l].added
            /\ Synced =>
                   \A i \in 1..Len(pre.tgt[l].entries) :
                       ~Has(src, pre.tgt[l].entries[i].k)
                           => InSeq(pre.tgt[l].entries[i].k, out[l].orphaned)

\* a run that inserted a key into a target that has an orphaned key and a
\* repeated key
C6_Witness ==
    /\ Synced
    /\ out["de"].added > 0
    /\ Has(pre.tgt["de"], OrphanKey)
    /\ out["de"].duplicates # <<>>
    /\ Len(tgt["de"].entries) > Len(pre.tgt["de"].entries)

\* every source entry stores the fingerprint of its value
SrcInSync ==
    /\ pre.src.st = "file"
    /\ pre.src.entries # <<>>
    /\ \A i \in 1..Len(pre.src.entries) :
           HashOf(pre.src.entries[i].attrs) = get_hash(pre.src.entries[i].v)

\* the target of language l has every source key, stored with the fingerprint
TgtInSync(l) ==
    \A key \in KeySet(pre.src.entries) :
        /\ Has(pre.tgt[l], key)
        /\ HashOf(Look(pre.tgt[l], key).attrs) = Fp(key)

\* C7: a sync run on files in which every source entry
\* stores the fingerprint of its value and every target has every source key
\* with that fingerprint leaves the source and every target as they are,
\* however the entry lines are written.
C7_NoOp ==
    (Synced /\ SrcInSync /\ \A l \in Read : TgtInSync(l)) =>
        src = pre.src /\ tgt = pre.tgt

Keys(file) == ordered_keys_of(file.entries)

\* the nearest key before the first occurrence of key in the source's key
\* order that the file has; "" if there is none
NearestBefore(file, key) ==
    LET first == FirstIdx(src.entries, key)
        found == {i \in 1..(first-1) : Has(file, src.entries[i].k)}
    IN IF found = {} THEN ""
       ELSE src.entries[CHOOSE x \in found : \A y \in found : y <= x].k

\* C8: after sync the keys that were in a target are in the order they were
\* in, and every key the run inserted sits immediately after the nearest key
\* that precedes it in the source's key order and is in the target.
C8_Order ==
    Synced =>
        \A l \in Read :
            /\ IsSubSeq(Keys(pre.tgt[l]), Keys(tgt[l]))
            /\ \A key \in Inserted(l) :
                   NearestBefore(tgt[l], key) # "" =>
                       \E j \in 2..Len(tgt[l].entries) :
                           /\ tgt[l].entries[j].k = key
                           /\ tgt[l].entries[j-1].k = NearestBefore(tgt[l], key)

\* C9: check, status, report, validate and help write no file and leave every
\* file as it is; sync writes only the target files it read and, under the
\* elements dialect only, the source file: under the texts dialect it leaves
\* the source file as it is.
C9_ReadOnly ==
    /\ cmd \in Commands \ {"sync"} => written = {} /\ Files = pre
    /\ cmd = "sync" =>
           /\ written \subseteq {"en"} \cup Read
           /\ "en" \notin written => src = pre.src
           /\ \A l \in Langs : l \notin written => tgt[l] = pre.tgt[l]
           /\ dia = "texts" => "en" \notin written

\* a sync run under the texts dialect that changed a target file, and whose
\* source file has entries
C9_Witness ==
    /\ Synced /\ dia = "texts"
    /\ "de" \in written
    /\ tgt["de"] # pre.tgt["de"]
    /\ src.entries # <<>>

\* the defects of the target of language l that count for the exit status
MissingIn(l) == \E key \in KeySet(pre.src.entries) : ~Has(pre.tgt[l], key)

DuplicateIn(l) == Len(pre.tgt[l].entries) > Cardinality(KeySet(pre.tgt[l].entries))

OrphanedIn(l) ==
    \E i \in 1..Len(pre.tgt[l].entries) : ~Has(pre.src, pre.tgt[l].entries[i].k)

\* C10: a check run that found the source file exits 1 if some target
\* language has a Missing, a Duplicate or an Orphaned key or its file is not
\* found, and exits 0 otherwise, whatever is Stale or Untranslated.
C10_CheckExit ==
    (cmd = "check" /\ pre.src.st = "file") =>
        (exitCode = 1 <=>
            \E l \in Langs :
                \/ pre.tgt[l].st = "unfound"
                \/ /\ pre.tgt[l].st = "file"
                   /\ MissingIn(l) \/ DuplicateIn(l) \/ OrphanedIn(l))

\* the defect validate looks for in the target of language l
VDefect(l) ==
    \/ pre.tgt[l].st = "unfound"
    \/ pre.tgt[l].st = "file" /\ MissingIn(l)

\* C11 as it is worded: validate exits 1 if some target language has no file
\* or lacks a source key, and exits 0 otherwise.
C11_AsWorded ==
    cmd = "validate" => (exitCode = 1 <=> \E l \in Langs : VDefect(l))

\* C11: validate exits 1 if the source file is not found or some target
\* language has no file or lacks a source key, and exits 0 otherwise, whatever
\* is duplicated, orphaned, stale or untranslated; it examines the languages
\* in order and none after the first that has such a defect.
C11_ValidateExit ==
    cmd = "validate" =>
        /\ exitCode = 1 <=> (pre.src.st # "file" \/ \E l \in Langs : VDefect(l))
        /\ pre.src.st = "file" =>
               \A j \in 1..Len(LangOrder) :
                   LET l == LangOrder[j]
                   IN IF pre.tgt[l].st = "none" THEN out[l].st = "none"
                      ELSE IF \E i \in 1..(j-1) : VDefect(LangOrder[i])
                      THEN out[l].st = "skipped"
                      ELSE out[l].st \in {"done", "notfound"}

\* a validate run that stopped at a first language that lacks a key, with a
\* second language left unexamined
C11_Witness ==
    /\ cmd = "validate" /\ exitCode = 1
    /\ pre.src.st = "file"
    /\ MissingIn("de") /\ out["de"].st = "done"
    /\ out["fr"].st = "skipped"

\* no source file, or a source file without the entry marker of a dialect
DetectionFails == pre.src.st # "file" \/ pre.src.entries = <<>>

\* C12: sync, check, status, report and validate, run where there is no
\* source file or where the source file has no entry marker of either dialect,
\* exit with a status other than 0, classify no target and write no file.
C12_DetectionFatal ==
    (cmd \in Commands \ {"help"} /\ DetectionFails) =>
        /\ exitCode # 0
        /\ \A l \in Langs : out[l].st = "none"
        /\ written = {}
        /\ Files = pre

\* how often key occurs in a sequence of keys
Count(seq, key) == Cardinality({i \in 1..Len(seq) : seq[i] = key})

\* what parsing a file yields, told from the entry lines of the file: every
\* occurrence in document order, n-1 duplicates for n occurrences, and the
\* value and hash of the last occurrence as those of the key
ParsedAsFile(file) ==
    LET parsed == parse_translation_file(file, dia)
        es == file.entries
    IN /\ Len(parsed.ordered_keys) = Len(es)
       /\ \A i \in 1..Len(es) :
              /\ parsed.ordered_keys[i] = es[i].k
              /\ Count(parsed.duplicates, es[i].k) = Count(parsed.ordered_keys, es[i].k) - 1
              /\ (\A j \in (i+1)..Len(es) : es[j].k # es[i].k) =>
                     /\ parsed.entries[es[i].k].value = es[i].v
                     /\ parsed.entries[es[i].k].hash = HashOf(es[i].attrs)
       /\ \A i \in 1..Len(parsed.duplicates) : Count(parsed.ordered_keys, parsed.duplicates[i]) >= 2

\* C13: parsing a file records a key that occurs n times n-1 times in the
\* duplicate list, lists every occurrence in the ordered keys in document
\* order and gives the key the value and the hash of its last occurrence; the
\* duplicates a command reports for a target are those of its file.
C13_Duplicates ==
    /\ src.st = "file" => ParsedAsFile(src)
    /\ \A l \in Langs :
           /\ tgt[l].st = "file" => ParsedAsFile(tgt[l])
           /\ (cmd \in {"sync", "check", "status", "report"} /\ Detected /\ out[l].st = "done") =>
                  \A key \in KeySet(pre.tgt[l].entries) :
                      Count(out[l].duplicates, key) = Count(Keys(pre.tgt[l]), key) - 1

\* a check run on a target that has key a twice, with two values and two
\* hashes
C13_Witness ==
    /\ cmd = "check" /\ Detected
    /\ out["de"].duplicates = <<"a">>
    /\ Len(pre.tgt["de"].entries) = 2
    /\ pre.tgt["de"].entries[1].v # pre.tgt["de"].entries[2].v
    /\ parse_translation_file(tgt["de"], dia).entries["a"].value = tgt["de"].entries[2].v
    /\ dia = "elements"
    /\ HashOf(pre.tgt["de"].entries[1].attrs) # HashOf(pre.tgt["de"].entries[2].attrs)

\* the format specifiers of a value in their order of appearance
SpecsInOrder(value) == SelectSeq(value, IsSpecifier)

\* the format errors a run reported for a key of language l
ErrorsFor(l, key) == SelectSeq(out[l].format_errors, LAMBDA issue : issue.key = key)

\* C14: sync and status report a format error for a key whose target value
\* is no placeholder exactly when the specifiers of the source value and of
\* the target value, each list in its order of appearance, differ in length
\* or at some position; the error carries both lists.
C14_Positional ==
    (cmd \in {"sync", "status"} /\ Detected) =>
        \A l \in Read : \A key \in KeySet(pre.src.entries) :
            (Has(pre.tgt[l], key) /\ ~HasPrefix(Look(pre.tgt[l], key))) =>
                LET source_specs == SpecsInOrder(Look(pre.src, key).v)
                    target_specs == SpecsInOrder(Look(pre.tgt[l], key).v)
                IN /\ ErrorsFor(l, key) # <<>> <=> source_specs # target_specs
                   /\ \A i \in 1..Len(ErrorsFor(l, key)) :
                          /\ ErrorsFor(l, key)[i].source = source_specs
                          /\ ErrorsFor(l, key)[i].target = target_specs

\* the two values do not have the same specifiers, in whatever order
SpecsDiffer(source_value, target_value) ==
    \E t \in {"%d", "%s"} : Count(source_value, t) # Count(target_value, t)

\* C15: sync, check and status each report a format error for a key whose
\* target value is no placeholder and has other format specifiers than the
\* source value, and sync leaves that target value as it is.
C15_Surfaced ==
    (cmd \in {"sync", "check", "status"} /\ Detected) =>
        \A l \in Read : \A key \in KeySet(pre.src.entries) :
            (/\ Has(pre.tgt[l], key)
             /\ ~HasPrefix(Look(pre.tgt[l], key))
             /\ SpecsDiffer(Look(pre.src, key).v, Look(pre.tgt[l], key).v)) =>
                /\ ErrorsFor(l, key) # <<>>
                /\ Look(tgt[l], key).v = Look(pre.tgt[l], key).v

\* C16: when a sync run has written the hash of a target entry that was in
\* the file before the run and whose value is a placeholder, the prefix
\* followed by a text X, the hash is the fingerprint of X, the source text
\* the value was made from.
C16_Provenance ==
    (Synced /\ dia = "elements") =>
        \A l \in Read : \A key \in KeySet(src.entries) :
            (/\ Has(pre.tgt[l], key)
             /\ HasPrefix(Look(tgt[l], key))
             /\ HashOf(Look(tgt[l], key).attrs) # HashOf(Look(pre.tgt[l], key).attrs)) =>
                HashOf(Look(tgt[l], key).attrs) = get_hash(Tail(Look(tgt[l], key).v))

\* C17: after sync under the elements dialect every entry occurrence of the
\* source file, each occurrence of a repeated key included, stores the
\* fingerprint of its own value.
C17_SourceHashes ==
    (Synced /\ dia = "elements") =>
        \A i \in 1..Len(src.entries) :
            HashOf(src.entries[i].attrs) = get_hash(src.entries[i].v)

\* the places of the run's file operations that are a write of the source,
\* and those that open a target file
SourceWrites == {i \in 1..Len(ops) : ops[i] = Wr("en")}
TargetOps == {i \in 1..Len(ops) : ops[i].file \in Langs}

\* every write of the source comes before the first target file is opened
SourceFirst == \A i \in SourceWrites : \A j \in TargetOps : i < j

\* every target of the run is compared with the fingerprints the source file
\* holds when the run ends
SameHashes ==
    \A l \in Read : \A key \in KeySet(src.entries) :
        /\ dia = "elements" => HashOf(Look(src, key).attrs) = Fp(key)
        /\ (\E i \in 1..Len(out[l].stale) : out[l].stale[i] = key)
               <=> (dia = "elements" /\ FlaggedStale(pre.tgt[l], key))

\* C18 as worded: every sync run writes the source file exactly once, before
\* any target file is read or written.
C18_AsWorded ==
    Synced => Cardinality(SourceWrites) = 1 /\ SourceFirst

\* C18: a sync run writes the source file at most once, and exactly once when
\* the dialect is elements and a stored hash of the source changes; the write
\* comes before any target file is read or written, and every target of the
\* run is compared against the same refreshed source hashes.
C18_SourceFirst ==
    Synced =>
        /\ Cardinality(SourceWrites) <= 1
        /\ Cardinality(SourceWrites) = 1 <=> (dia = "elements" /\ src # pre.src)
        /\ SourceWrites # {} <=> "en" \in written
        /\ SourceFirst
        /\ SameHashes

\* a sync run that refreshed the source and then went through two targets,
\* one of them with a stale entry
C18_Witness ==
    /\ Synced
    /\ SourceWrites # {}
    /\ \A l \in Langs : \E j \in TargetOps : ops[j] = Wr(l)
    /\ \E l \in Read : out[l].stale # <<>>

\* the same line but for the order of its attributes and the blank before "/>"
SameLine(a, b) ==
    /\ a.k = b.k
    /\ a.v = b.v
    /\ {a.attrs[i] : i \in 1..Len(a.attrs)} = {b.attrs[i] : i \in 1..Len(b.attrs)}

\* C19: a well-formed entry line that is parsed and serialized with
\* format_entry is the same line up to the order of its attributes, and a
\* second parse and serialization yields the text of the first.
C19_RoundTrip ==
    cmd = "roundtrip" =>
        /\ ~again => SameLine(tgt["de"].entries[1], pre.tgt["de"].entries[1])
        /\ again => tgt["de"].entries[1] = pre.tgt["de"].entries[1]

\* what the sync run that was stopped would have left in the file of a
\* language, had it gone through: the files before that run are in pre
Uninterrupted(l) ==
    LET fmt == auto_detect_xml_format(pre.src)
        upd == source_hash_step(pre.src, fmt)
        source == parse_translation_file(upd.file, fmt)
    IN IF pre.tgt[l].st = "file" THEN SyncLang(pre.tgt[l], source, fmt).file
       ELSE pre.tgt[l]

\* C20: when a sync run was stopped while it wrote a target file and sync is
\* then run to completion, every target file has the content the run that was
\* stopped would have produced.
C20_Converges ==
    [][(cmd = "interrupted" /\ cmd' = "sync" /\ exitCode' = 0) =>
          \A l \in Langs : tgt'[l] = Uninterrupted(l)]_vars

\* the first occurrence of a key in a file
FirstOcc(file, key) == file.entries[FirstIdx(file.entries, key)]

\* the classes sync and check report for the source keys are those of the
\* occurrence Occ picks of a repeated key, in the target and in the source
ClassifiedFrom(Occ(_,_)) ==
    (cmd \in {"sync", "check"} /\ Detected) =>
        \A l \in Read : \A key \in KeySet(pre.src.entries) :
            LET there == Has(pre.tgt[l], key)
                e == Occ(pre.tgt[l], key)
                s == Occ(pre.src, key)
                copied == /\ e.v = s.v
                          /\ ~is_format_only_string(s.v)
                          /\ ~is_cognate_or_international_term(s.v)
                untranslated == HasPrefix(e) \/ copied
            IN out[l].st = "done" =>
                   /\ InSeq(key, out[l].missing) <=> ~there
                   /\ cmd = "check" =>
                          (InSeq(key, out[l].untranslated) <=> (there /\ untranslated))
                   /\ InSeq(key, out[l].stale) <=>
                          /\ there
                          /\ dia = "elements"
                          /\ HashOf(e.attrs) # get_hash(s.v)
                          /\ ~HasPrefix(e)
                          /\ cmd = "check" =>
                                 HashOf(e.attrs) \notin {None, EmptyHash} /\ ~copied

\* C21: when a key is repeated in a file, the value and hash of its first
\* occurrence are the ones sync and check classify the key by (Missing,
\* Stale, Untranslated), and every repeat is reported as a Duplicate.
C21_FirstWins ==
    /\ ClassifiedFrom(FirstOcc)
    /\ \A l \in Read :
           (cmd \in {"sync", "check"} /\ Detected /\ out[l].st = "done") =>
               \A key \in KeySet(pre.tgt[l].entries) :
                   Count(out[l].duplicates, key) = Count(Keys(pre.tgt[l]), key) - 1

\* what sync would report for language l on the files the last command found
SyncReport(l) ==
    LET fmt == auto_detect_xml_format(pre.src)
        upd == source_hash_step(pre.src, fmt)
        source == parse_translation_file(upd.file, fmt)
    IN SyncLang(pre.tgt[l], source, fmt).report

SetOf(seq) == {seq[i] : i \in 1..Len(seq)}

\* C22: on the same source file and target file, the keys check, status and
\* report classify as Stale, as Missing and as Orphaned are the keys sync
\* reports as Stale, as Missing and as Orphaned.
C22_OneRule ==
    (cmd \in {"check", "status", "report"} /\ Detected) =>
        \A l \in Read :
            out[l].st = "done" =>
                /\ SetOf(out[l].stale) = SetOf(SyncReport(l).stale)
                /\ SetOf(out[l].missing) = SetOf(SyncReport(l).missing)
                /\ SetOf(out[l].orphaned) = SetOf(SyncReport(l).orphaned)

\* C23: sync reports a source key Missing exactly when the target lacks it,
\* and Stale exactly when the target has it, the dialect is elements, the
\* stored hash of the target differs from the fingerprint of the source value
\* and the target value has no placeholder prefix; no key is both, a
\* placeholder is never Stale, and under texts no command reports a Stale key.
C23_SyncClasses ==
    /\ Synced =>
           \A l \in Read : \A key \in KeySet(pre.src.entries) :
               /\ InSeq(key, out[l].missing) <=> ~Has(pre.tgt[l], key)
               /\ InSeq(key, out[l].stale) <=>
                      /\ Has(pre.tgt[l], key)
                      /\ dia = "elements"
                      /\ HashOf(Look(pre.tgt[l], key).attrs) # Fp(key)
                      /\ ~HasPrefix(Look(pre.tgt[l], key))
               /\ ~(InSeq(key, out[l].missing) /\ InSeq(key, out[l].stale))
               /\ (Has(pre.tgt[l], key) /\ HasPrefix(Look(pre.tgt[l], key))) =>
                      ~InSeq(key, out[l].stale)
    /\ (cmd \in Commands /\ dia = "texts") => \A l \in Langs : out[l].stale = <<>>

\* a sync run under elements that reported a missing key and a stale key
C23_Witness ==
    /\ Synced
    /\ dia = "elements"
    /\ out["de"].missing # <<>>
    /\ out["de"].stale # <<>>

\* the keys a file shares with the source are in the order the source first
\* names them
OrderedAsSource(file) ==
    \A i, j \in 1..Len(file.entries) :
        (/\ i < j
         /\ Has(src, file.entries[i].k)
         /\ Has(src, file.entries[j].k)) =>
            FirstIdx(src.entries, file.entries[i].k) <= FirstIdx(src.entries, file.entries[j].k)

\* C24: if the keys a target shares with the source are in the order of the
\* source before sync, then after sync the keys it shares with the source,
\* the inserted ones included, are in the order of the source, also when the
\* target lacked the first source keys.
C24_SourceOrder ==
    Synced =>
        \A l \in Read : OrderedAsSource(pre.tgt[l]) => OrderedAsSource(tgt[l])

\* the key, the value and the attributes other than the hash of every entry
\* line, in document order
KeptParts(es) ==
    [i \in 1..Len(es) |->
        [k |-> es[i].k, v |-> es[i].v,
         others |-> SelectSeq(es[i].attrs, LAMBDA a : a.n # "eh")]]

\* C25: a sync run under elements changes nothing but the hash attribute of
\* the entries that were in the source and in the targets: key, value and
\* every other attribute of each are what they were.
C25_OnlyHash ==
    (Synced /\ dia = "elements") =>
        /\ KeptParts(src.entries) = KeptParts(pre.src.entries)
        /\ \A l \in Read : IsSubSeq(KeptParts(pre.tgt[l].entries), KeptParts(tgt[l].entries))

\* what sync makes of the file of language l, told from the source file and
\* that file alone, as they were before the run
SyncAlone(l) ==
    LET fmt == auto_detect_xml_format(pre.src)
        upd == source_hash_step(pre.src, fmt)
        source == parse_translation_file(upd.file, fmt)
    IN SyncLang(pre.tgt[l], source, fmt).file

NoRepeat(file) ==
    \A i, j \in 1..Len(file.entries) : file.entries[i].k = file.entries[j].k => i = j

\* C27: a target file that repeats no key before a sync run repeats no key
\* after it, whatever the source file, a source that repeats a key the target
\* lacks included.
C27_NoNewDuplicate ==
    Synced => \A l \in Read : NoRepeat(pre.tgt[l]) => NoRepeat(tgt[l])

\* the occurrences of a key in a file, in document order
Occs(file, key) == SelectSeq(file.entries, LAMBDA e : e.k = key)

\* an occurrence that is stale on its own: no placeholder, and a stored hash
\* that is non-empty and not the fingerprint of the source value
StaleOcc(e) ==
    /\ ~HasPrefix(e)
    /\ HashOf(e.attrs) \notin {None, EmptyHash}
    /\ HashOf(e.attrs) # Fp(e.k)

\* C28: sync leaves the stored hash of every target occurrence that is stale
\* on its own as it is, also when the key occurs more than once in the target
\* with different hashes.
C28_StaleOccurrence ==
    (Synced /\ dia = "elements") =>
        \A l \in Read : \A key \in KeySet(src.entries) \cap KeySet(pre.tgt[l].entries) :
            /\ Len(Occs(tgt[l], key)) = Len(Occs(pre.tgt[l], key))
            /\ \A j \in 1..Len(Occs(pre.tgt[l], key)) :
                   StaleOcc(Occs(pre.tgt[l], key)[j]) =>
                       HashOf(Occs(tgt[l], key)[j].attrs) = HashOf(Occs(pre.tgt[l], key)[j].attrs)

\* C29: after any sync run the source file has the entry occurrences it had,
\* in the same order, with the same keys and values: no entry is added to it
\* or taken from it, and no placeholder is written into it.
C29_SourceKept ==
    cmd = "sync" =>
        /\ src.st = pre.src.st
        /\ src.close = pre.src.close
        /\ KV(src.entries) = KV(pre.src.entries)

\* a sync run that wrote the source file, whose values hold an escaped
\* character, and inserted a placeholder into a target
C29_Witness ==
    /\ Synced
    /\ "en" \in written
    /\ src # pre.src
    /\ \E i \in 1..Len(src.entries) : src.entries[i].v = Amp
    /\ \E l \in Read : out[l].added > 0

\* the occurrences in the target file of keys that the source lacks
OrphanOccurrences(l) ==
    Cardinality({i \in 1..Len(pre.tgt[l].entries) : ~Has(pre.src, pre.tgt[l].entries[i].k)})

\* C30: for every language status reports on, each distinct source key is
\* counted in exactly one of translated, stale, untranslated and missing, so
\* the four counts sum to the number of distinct source keys; orphaned keys
\* are counted apart, once per occurrence in the target.
C30_Partition ==
    (cmd = "status" /\ exitCode = 0) =>
        \A l \in Langs :
            out[l].st = "done" =>
                LET classes == <<out[l].translated, out[l].stale,
                                 out[l].untranslated, out[l].missing>>
                IN /\ \A key \in KeySet(pre.src.entries) :
                          Cardinality({c \in 1..4 : InSeq(key, classes[c])}) = 1
                   /\ \A c \in 1..4 : SetOf(classes[c]) \subseteq KeySet(pre.src.entries)
                   /\ Len(out[l].translated) + Len(out[l].stale)
                          + Len(out[l].untranslated) + Len(out[l].missing)
                      = Cardinality(KeySet(pre.src.entries))
                   /\ Len(out[l].orphaned) = OrphanOccurrences(l)

====
